---- MODULE Spec2Model ----
(***************************************************************************)
(* Model of dlogcsv.py: the conversion of a parsed data log (header plus   *)
(* samples) into CSV rows on standard output, with an optional summary of  *)
(* the header on standard error.                                           *)
(*                                                                         *)
(* A Python float that is the quotient of two whole numbers is modelled by *)
(* that quotient in lowest terms; its text is the shortest decimal that    *)
(* converts back to the double nearest the quotient, as repr() gives it.   *)
(* Text is modelled by TLA+ strings, one per printed line or CSV field.    *)
(***************************************************************************)
EXTENDS Integers, Sequences, FiniteSets, TLC

VARIABLES
    args,           \* parsed command line: quiet, no_csv_log_header, no_csv_column_header
    header,         \* dlog.body.header
    samples,        \* dlog.body.data.samples: each entry is one sample's channel list
    pc,             \* position of main / write_csv
    stderr,         \* lines printed on the diagnostic stream
    stdout,         \* rows written to the CSV sink, each a sequence of text fields
    log_header,     \* main's local: None or the key=value row
    column_header,  \* main's local: None or the column title row
    pulled,         \* number of samples the generator has taken from the sample sequence
    row,            \* the row last yielded by the generator and not yet written
    sink_open,      \* a csv.writer is bound to the sink and the sink has not been closed
    sink_failed,    \* a write to the sink has raised
    prev            \* outcome of the previous completed run on the same input file

vars == <<args, header, samples, pc, stderr, stdout, log_header, column_header,
          pulled, row, sink_open, sink_failed, prev>>

-----------------------------------------------------------------------------
(* Bounds and input domains *)

\* Longest sample sequence explored.
MaxSamples == 2

\* header.voltage_scale values explored: the two keys of the unit table and two
\* others.
VoltageScales == {1, 2, 5, 1000}

\* header.sample_rate values explored.
SampleRates == {2, 1000}

\* header.delay values explored (whole seconds).
Delays == {0, 3}

\* header.num_channels values explored.
NumChannels == {1, 2}

\* header.channel_map values explored: shorter than, equal to and longer than
\* num_channels.
ChannelMaps == {<<>>, <<2>>, <<2, 1>>, <<1, 2, 3>>}

\* Channel lists a sample may carry: one and two values.
SampleChannels == {<<7>>, <<5, 4>>}

\* The enumerated header tags explored: members of an Enum class, each with
\* the name of its class and its own name.
DlogFormats == {[cls |-> "DlogFormats", name |-> "default"]}
StopReasons == {[cls |-> "StopReasons", name |-> "normal"]}

-----------------------------------------------------------------------------
(* Python values *)

\* Optional value: None, or Some(v).
None == [some |-> FALSE, val |-> <<>>]
Some(v) == [some |-> TRUE, val |-> v]

RECURSIVE Gcd(_, _)
Gcd(a, b) == IF b = 0 THEN a ELSE Gcd(b, a % b)

\* a / b on Python numbers, for a >= 0 and b > 0: the float nearest the exact
\* quotient, identified with that quotient in lowest terms.
TrueDiv(a, b) == LET g == Gcd(a, b) IN [n |-> a \div g, d |-> b \div g]

RECURSIVE Pow10(_)
Pow10(k) == IF k = 0 THEN 1 ELSE 10 * Pow10(k - 1)

RECURSIVE Zeros(_)
Zeros(k) == IF k = 0 THEN "" ELSE "0" \o Zeros(k - 1)

(* Whole numbers beyond the machine word, as the float arithmetic needs them: *)
(* a sequence of decimal digits, least significant first; <<>> is zero.       *)

RECURSIVE BigNorm(_)
BigNorm(a) ==
    IF a = <<>> THEN <<>>
    ELSE IF a[Len(a)] = 0 THEN BigNorm(SubSeq(a, 1, Len(a) - 1))
    ELSE a

RECURSIVE BigFromInt(_)
BigFromInt(n) == IF n = 0 THEN <<>> ELSE <<n % 10>> \o BigFromInt(n \div 10)

RECURSIVE BigMulSmallC(_, _, _, _, _)
BigMulSmallC(a, k, i, carry, out) ==
    IF i > Len(a) THEN out \o BigFromInt(carry)
    ELSE LET t == a[i] * k + carry
             o == Append(out, t % 10)
         IN IF Len(o) >= 0 THEN BigMulSmallC(a, k, i + 1, t \div 10, o) ELSE <<>>

\* a * k for a small k.
BigMulSmall(a, k) == BigNorm(BigMulSmallC(a, k, 1, 0, <<>>))

RECURSIVE BigAddC(_, _, _, _, _)
BigAddC(a, b, i, carry, out) ==
    IF i > Len(a) /\ i > Len(b) THEN out \o BigFromInt(carry)
    ELSE LET x == IF i > Len(a) THEN 0 ELSE a[i]
             y == IF i > Len(b) THEN 0 ELSE b[i]
             t == x + y + carry
             o == Append(out, t % 10)
         IN IF Len(o) >= 0 THEN BigAddC(a, b, i + 1, t \div 10, o) ELSE <<>>

BigAdd(a, b) == BigAddC(a, b, 1, 0, <<>>)

RECURSIVE BigSubB(_, _, _, _, _)
BigSubB(a, b, i, borrow, out) ==
    IF i > Len(a) THEN out
    ELSE LET y == IF i > Len(b) THEN 0 ELSE b[i]
             t == a[i] - y - borrow
             o == Append(out, IF t < 0 THEN t + 10 ELSE t)
         IN IF Len(o) >= 0 THEN BigSubB(a, b, i + 1, IF t < 0 THEN 1 ELSE 0, o)
            ELSE <<>>

\* a - b for a >= b.
BigSub(a, b) == BigNorm(BigSubB(a, b, 1, 0, <<>>))

RECURSIVE BigLeqAt(_, _, _)
BigLeqAt(a, b, k) ==
    IF k = 0 THEN TRUE
    ELSE IF a[k] # b[k] THEN a[k] < b[k]
    ELSE BigLeqAt(a, b, k - 1)

\* a <= b.
BigLeq(a, b) == IF Len(a) # Len(b) THEN Len(a) < Len(b) ELSE BigLeqAt(a, b, Len(a))

RECURSIVE BigDivSmallR(_, _, _, _, _)
BigDivSmallR(a, d, k, r, q) ==
    IF k = 0 THEN [q |-> q, r |-> r]
    ELSE LET cur == r * 10 + a[k]
             o == <<cur \div d>> \o q
         IN IF Len(o) >= 0 THEN BigDivSmallR(a, d, k - 1, cur % d, o)
            ELSE [q |-> <<>>, r |-> 0]

\* Quotient and remainder of a by a small d, from the top digit down.
BigDivSmall(a, d) ==
    LET qr == BigDivSmallR(a, d, Len(a), 0, <<>>) IN [q |-> BigNorm(qr.q), r |-> qr.r]

RECURSIVE Pow2(_)
Pow2(j) == IF j = 0 THEN 1 ELSE 2 * Pow2(j - 1)

\* a * 2^j and a \div 2^j, twenty bits at a time.
RECURSIVE BigMulPow2(_, _)
BigMulPow2(a, j) ==
    IF j <= 20 THEN BigMulSmall(a, Pow2(j))
    ELSE LET b == BigMulSmall(a, Pow2(20))
         IN IF Len(b) >= 0 THEN BigMulPow2(b, j - 20) ELSE <<>>

RECURSIVE BigDivPow2(_, _)
BigDivPow2(a, j) ==
    IF j <= 20 THEN BigDivSmall(a, Pow2(j)).q
    ELSE LET b == BigDivSmall(a, Pow2(20)).q
         IN IF Len(b) >= 0 THEN BigDivPow2(b, j - 20) ELSE <<>>

\* a * 10^k and a \div 10^k.
BigMulPow10(a, k) == IF a = <<>> THEN <<>> ELSE [x \in 1..k |-> 0] \o a
BigDivPow10(a, k) == IF Len(a) <= k THEN <<>> ELSE SubSeq(a, k + 1, Len(a))

\* The digits of a, most significant first.
RECURSIVE BigDigits(_)
BigDigits(a) == IF a = <<>> THEN "" ELSE BigDigits(Tail(a)) \o ToString(a[1])

RECURSIVE StripZeros(_)
StripZeros(t) ==
    IF Len(t) > 1 /\ SubSeq(t, Len(t), Len(t)) = "0"
    THEN StripZeros(SubSeq(t, 1, Len(t) - 1))
    ELSE t

(* The double nearest n/d, for small n > 0 and d > 0 (below 2^31 and        *)
(* 214748365): a 53-bit mantissa m and T with value m / 2^T.                *)

RECURSIVE ExpUp(_, _, _)
ExpUp(n, d, e) == IF n \div 2 >= d THEN ExpUp(n \div 2, d, e + 1) ELSE e

RECURSIVE ExpDown(_, _, _)
ExpDown(n, d, j) == IF n >= d THEN j ELSE ExpDown(n, (d + 1) \div 2, j + 1)

\* e with 2^e <= n/d < 2^(e+1).
BinExp(n, d) == IF n >= d THEN ExpUp(n, d, 0) ELSE 0 - ExpDown(n, d, 0)

\* 2^52 = 4503599627370496 and 2^53 = 9007199254740992: the 53-bit mantissas
\* are the whole numbers from the first up to, not including, the second.
Big2p52 == <<6, 9, 4, 0, 7, 3, 7, 2, 6, 9, 9, 5, 3, 0, 5, 4>>
Big2p53 == <<2, 9, 9, 0, 4, 7, 4, 5, 2, 9, 9, 1, 7, 0, 0, 9>>

\* A mantissa rounded up to 2^53 is 2^52 with the next exponent.
Renormalise(m, T) ==
    IF m = Big2p53 THEN [m |-> Big2p52, T |-> T - 1] ELSE [m |-> m, T |-> T]

\* The quotient qr.q with remainder qr.r of a division by d, rounded to the
\* nearest whole number, ties to even.
RoundHalfEven(qr, d, T) ==
    Renormalise(IF \/ qr.r > d - qr.r
                   \/ qr.r = d - qr.r /\ qr.q[1] % 2 = 1
                THEN BigAdd(qr.q, <<1>>) ELSE qr.q, T)

MantissaOf(n, d, T) ==
    RoundHalfEven(BigDivSmall(BigMulPow2(BigFromInt(n), T), d), d, T)

\* n/d rounded to 53 bits: m and T with value m / 2^T.
NearestDouble(n, d) == MantissaOf(n, d, 52 - BinExp(n, d))

RECURSIVE DecDown(_, _, _)
DecDown(n, d, j) == IF n >= d THEN j ELSE DecDown(n, (d + 9) \div 10, j + 1)

\* p with 10^p <= n/d < 10^(p+1).
DecExp(n, d) == IF n >= d THEN Len(ToString(n \div d)) - 1 ELSE 0 - DecDown(n, d, 0)

(* The decimal c * 10^q with k significant digits nearest the double v, and  *)
(* whether it converts back to v: whether it lies within half a unit in the  *)
(* last place of v (a quarter below a power of two), the ends included when  *)
(* the mantissa is even. Of two equally near decimals the even one is taken  *)
(* if it converts back, the other one otherwise. All quantities are scaled   *)
(* to whole numbers: by 10^a for q = -a < 0, by 10^b for q = b > 0.          *)

Within(even, lo, hi, cs) ==
    IF even THEN BigLeq(lo, cs) /\ BigLeq(cs, hi)
    ELSE ~BigLeq(cs, lo) /\ ~BigLeq(hi, cs)

ConvertsBack(v, b, lo, hi, c) ==
    Within(v.m[1] % 2 = 0, lo, hi, BigMulPow2(BigMulPow10(c, b), v.T + 2))

CandidateTry(v, q, b, lo, hi, first, second) ==
    IF ConvertsBack(v, b, lo, hi, first) THEN [c |-> first, q |-> q, ok |-> TRUE]
    ELSE [c |-> second, q |-> q, ok |-> ConvertsBack(v, b, lo, hi, second)]

CandidatePick(v, q, b, lo, hi, up, tie) ==
    CandidateTry(v, q, b, lo, hi,
                 IF tie /\ up[1] % 2 = 1 THEN BigSub(up, <<1>>) ELSE up,
                 IF tie /\ up[1] % 2 = 0 THEN BigSub(up, <<1>>) ELSE up)

CandidateTie(v, q, b, num, lo, hi, up) ==
    CandidatePick(v, q, b, lo, hi, up,
                  BigMulPow2(BigMulPow10(up, b), v.T + 1) = num)

CandidateFrom(v, q, b, num, lo, hi) ==
    CandidateTie(v, q, b, num, lo, hi,
                 BigDivPow10(BigDivPow2(num, v.T + 1), b))

CandidateScaled(v, q, a, b) ==
    CandidateFrom(v, q, b,
        BigAdd(BigMulSmall(BigMulPow10(v.m, a), 2),
               BigMulPow10(BigMulPow2(<<1>>, v.T), b)),
        BigMulPow10(BigSub(BigMulSmall(v.m, 4),
                           IF v.m = Big2p52 THEN <<1>> ELSE <<2>>), a),
        BigMulPow10(BigAdd(BigMulSmall(v.m, 4), <<2>>), a))

CandidateAt(v, q) ==
    CandidateScaled(v, q, IF q < 0 THEN 0 - q ELSE 0, IF q > 0 THEN q ELSE 0)

Candidate(v, p, k) == CandidateAt(v, p - k + 1)

RECURSIVE Shortest(_, _, _)
ShortestFrom(v, p, k, cand) ==
    IF cand.ok \/ k >= 17 THEN cand ELSE Shortest(v, p, k + 1)

\* The first k from 1 to 17 whose candidate converts back.
Shortest(v, p, k) == ShortestFrom(v, p, k, Candidate(v, p, k))

PlaceDigits(full, q) == [s |-> StripZeros(full), decpt |-> Len(full) + q]

\* The shortest digit string that converts back to the double nearest n/d,
\* with the position of the decimal point: value = 0.s * 10^decpt.
ShortestDigits(n, d) ==
    LET cand == Shortest(NearestDouble(n, d), DecExp(n, d), 1)
    IN PlaceDigits(BigDigits(cand.c), cand.q)

RECURSIVE ExactFrac(_, _, _, _)
ExactFrac(r, d, budget, acc) ==
    IF r = 0 THEN [ok |-> TRUE, s |-> acc]
    ELSE IF budget = 0 THEN [ok |-> FALSE, s |-> acc]
    ELSE ExactFrac((r * 10) % d, d, budget - 1, acc \o ToString((r * 10) \div d))

RECURSIVE LeadingZeros(_, _)
LeadingZeros(r, d) == IF r * 10 >= d THEN 0 ELSE 1 + LeadingZeros(r * 10, d)

ExactPlaced(fr, decpt) == [ok |-> fr.ok, s |-> StripZeros(fr.s), decpt |-> decpt]

ExactWhole(n, d, ip) == ExactPlaced(ExactFrac(n % d, d, 15 - Len(ip), ip), Len(ip))

ExactSmall(n, d, z) == ExactPlaced(ExactFrac(n * Pow10(z), d, 15, ""), 0 - z)

\* The exact decimal expansion of n/d when it has at most 15 significant
\* digits. Such a decimal is the shortest string that converts to the double
\* nearest it, so this is ShortestDigits(n, d) without the long arithmetic.
ExactDigits(n, d) ==
    IF n >= d THEN ExactWhole(n, d, ToString(n \div d))
    ELSE ExactSmall(n, d, LeadingZeros(n, d))

\* float_repr_style 'short': exponent form when decpt <= -4 or decpt > 16,
\* otherwise positional with at least one digit after the point.
FormatFloat(s, decpt) ==
    IF decpt <= -4 \/ decpt > 16
    THEN LET e == decpt - 1
             mag == IF e < 0 THEN 0 - e ELSE e
         IN SubSeq(s, 1, 1) \o
            (IF Len(s) > 1 THEN "." \o SubSeq(s, 2, Len(s)) ELSE "") \o
            "e" \o (IF e < 0 THEN "-" ELSE "+") \o
            (IF mag < 10 THEN "0" ELSE "") \o ToString(mag)
    ELSE IF decpt <= 0 THEN "0." \o Zeros(0 - decpt) \o s
    ELSE IF decpt >= Len(s) THEN s \o Zeros(decpt - Len(s)) \o ".0"
    ELSE SubSeq(s, 1, decpt) \o "." \o SubSeq(s, decpt + 1, Len(s))

FormatDigits(ds) == FormatFloat(ds.s, ds.decpt)

FloatText(x, ex) == FormatDigits(IF ex.ok THEN ex ELSE ShortestDigits(x.n, x.d))

\* repr() / str() / format() of the non-negative float x: the shortest decimal
\* string that converts back to x.
FloatRepr(x) == IF x.n = 0 THEN "0.0" ELSE FloatText(x, ExactDigits(x.n, x.d))

RECURSIVE JoinInts(_)
JoinInts(s) ==
    IF s = <<>> THEN ""
    ELSE IF Len(s) = 1 THEN ToString(s[1])
    ELSE ToString(s[1]) \o ", " \o JoinInts(Tail(s))

\* str() of a list of integers: "[1, 2]".
ListStr(s) == "[" \o JoinInts(s) \o "]"

\* s[:n] for n >= 0.
Slice(s, n) == SubSeq(s, 1, IF n < Len(s) THEN n ELSE Len(s))

RECURSIVE TrailingZeros(_)
TrailingZeros(n) == IF n % 10 = 0 THEN 1 + TrailingZeros(n \div 10) ELSE 0

\* decimal.Decimal(v).normalize().to_eng_string() for an integer-valued v:
\* normalize() strips trailing zeros into the exponent, to_eng_string() then
\* places the point so that the exponent is a multiple of three.
EngString(v) ==
    IF v = 0 THEN "0"
    ELSE LET sign == IF v < 0 THEN "-" ELSE ""
             m == IF v < 0 THEN -v ELSE v
             exp == TrailingZeros(m)
             int == ToString(m \div Pow10(exp))
             leftdigits == exp + Len(int)
             dotplace == IF exp = 0 THEN leftdigits ELSE ((leftdigits - 1) % 3) + 1
             intpart == IF dotplace >= Len(int)
                        THEN int \o Zeros(dotplace - Len(int))
                        ELSE SubSeq(int, 1, dotplace)
             fracpart == IF dotplace >= Len(int) THEN ""
                         ELSE "." \o SubSeq(int, dotplace + 1, Len(int))
             e == IF leftdigits = dotplace THEN ""
                  ELSE "E+" \o ToString(leftdigits - dotplace)
         IN sign \o intpart \o fracpart \o e

-----------------------------------------------------------------------------
(* format_header_info *)

\* The lookup table of unit names, keyed by voltage_scale.
voltage_scale_strings == [k \in {1000, 1} |-> IF k = 1000 THEN "mV" ELSE "V"]

\* Faulty variant: the table is searched for the reciprocal, the value the
\* local name voltage_scale holds at that point, instead of header.voltage_scale.
VoltageUnit_ReciprocalKey(h) ==
    LET recip == TrueDiv(1, h.voltage_scale)
    IN IF recip.d = 1 /\ recip.n \in DOMAIN voltage_scale_strings
       THEN voltage_scale_strings[recip.n]
       ELSE FloatRepr(recip)

\* The text shown for the voltage unit: the reciprocal of voltage_scale,
\* replaced by the table's unit name when voltage_scale is a key of the table.
VoltageUnit(h) ==
    IF h.voltage_scale \in DOMAIN voltage_scale_strings
    THEN voltage_scale_strings[h.voltage_scale]
    ELSE FloatRepr(TrueDiv(1, h.voltage_scale))

format_header_info(h) ==
    << "log format: " \o h.dlog_format.name,
       "stop reason: " \o h.stop_reason.name,
       "number of samples: " \o ToString(h.num_samples),
       "voltage units: " \o VoltageUnit(h),
       "sample rate: " \o EngString(h.sample_rate) \o " Sa/s",
       "delay: " \o EngString(h.delay) \o " s",
       "number of channels: " \o ToString(h.num_channels),
       "channel map: " \o ListStr(Slice(h.channel_map, h.num_channels)) >>

-----------------------------------------------------------------------------
(* main: the rows *)

\* vars(header): the attribute names of the header object in the order they
\* were set, the parser's internal ones included.
HeaderVars ==
    << "_io", "_parent", "_root", "dlog_format", "stop_reason", "num_samples",
       "voltage_scale", "sample_rate", "delay", "num_channels", "channel_map" >>

\* format() of a member of an Enum class: "Class.member".
EnumStr(t) == t.cls \o "." \o t.name

\* f'{v}' for the value v of the header attribute f.
AttrStr(h, f) ==
    CASE f = "dlog_format"   -> EnumStr(h.dlog_format)
      [] f = "stop_reason"   -> EnumStr(h.stop_reason)
      [] f = "num_samples"   -> ToString(h.num_samples)
      [] f = "voltage_scale" -> ToString(h.voltage_scale)
      [] f = "sample_rate"   -> ToString(h.sample_rate)
      [] f = "delay"         -> ToString(h.delay)
      [] f = "num_channels"  -> ToString(h.num_channels)
      [] f = "channel_map"   -> ListStr(h.channel_map)

\* [f'{f}={v}' for f, v in vars(header).items() if not f.startswith('_')]
LogHeaderRow(h) ==
    LET public == SelectSeq(HeaderVars, LAMBDA f : Head(f) # "_")
    IN [k \in 1..Len(public) |-> public[k] \o "=" \o AttrStr(h, public[k])]

\* Faulty variant: the whole channel_map is titled, not its active slice.
ColumnHeaderRow_WholeMap(h) ==
    <<"Time">> \o [j \in 1..Len(h.channel_map) |->
                     "Channel " \o ToString(h.channel_map[j])]

\* ['Time'] + ['Channel ' + str(c) for c in header.channel_map[:header.num_channels]]
ColumnHeaderRow(h) ==
    LET active == Slice(h.channel_map, h.num_channels)
    IN <<"Time">> \o [j \in 1..Len(active) |-> "Channel " \o ToString(active[j])]

\* Faulty variant: the index counts from one.
TimestampedRow_FromOne(h, i, s) == <<TrueDiv(i + 1, h.sample_rate)>> \o s

\* The element the generator yields for the pair (i, s) of enumerate():
\* [i/header.sample_rate, *s.channel]
TimestampedRow(h, i, s) == <<TrueDiv(i, h.sample_rate)>> \o s

\* The fields csv.writer writes for a data row: the float by repr(), the
\* channel values by str().
CsvDataRow(r) ==
    [j \in 1..Len(r) |-> IF j = 1 THEN FloatRepr(r[1]) ELSE ToString(r[j])]

-----------------------------------------------------------------------------
(* Initial state: the arguments are parsed and the log file is read *)

Args ==
    [quiet : BOOLEAN, no_csv_log_header : BOOLEAN, no_csv_column_header : BOOLEAN]

RECURSIVE SeqsUpTo(_, _)
SeqsUpTo(S, n) ==
    IF n = 0 THEN {<<>>}
    ELSE LET shorter == SeqsUpTo(S, n - 1)
         IN shorter \cup {Append(q, x) : q \in shorter, x \in S}

\* The headers explored. The numeric attributes are whole numbers.
Headers(n) ==
    [dlog_format : DlogFormats, stop_reason : StopReasons, num_samples : {n},
     voltage_scale : VoltageScales, sample_rate : SampleRates, delay : Delays,
     num_channels : NumChannels, channel_map : ChannelMaps]

NoRun == [ran |-> FALSE, args |-> <<>>, stdout |-> <<>>, stderr |-> <<>>]

\* What a fresh process starts from, whatever its arguments.
Fresh ==
    /\ pc = "start"
    /\ stderr = <<>>
    /\ stdout = <<>>
    /\ log_header = None
    /\ column_header = None
    /\ pulled = 0
    /\ row = None
    /\ sink_open = FALSE
    /\ sink_failed = FALSE

Init ==
    /\ args \in Args
    /\ samples \in SeqsUpTo(SampleChannels, MaxSamples)
    /\ header \in Headers(Len(samples))
    /\ prev = NoRun
    /\ Fresh

-----------------------------------------------------------------------------
(* main *)

\* Faulty variant: the summary is printed without file=sys.stderr, so its
\* lines land in the CSV sink.
PrintHeaderInfo_ToStdout ==
    /\ pc = "start"
    /\ stdout' = IF ~args.quiet
                 THEN stdout \o <<<<"Header Information">>>> \o
                      [k \in 1..Len(format_header_info(header)) |->
                          <<format_header_info(header)[k]>>]
                 ELSE stdout
    /\ pc' = "build"
    /\ UNCHANGED <<args, header, samples, stderr, log_header, column_header,
                   pulled, row, sink_open, sink_failed, prev>>

\* if not args.quiet: print('\n'.join([...] + format_header_info(header)), file=sys.stderr)
PrintHeaderInfo ==
    /\ pc = "start"
    /\ stderr' = IF ~args.quiet
                 THEN stderr \o <<"Header Information">> \o format_header_info(header)
                 ELSE stderr
    /\ pc' = "build"
    /\ UNCHANGED <<args, header, samples, stdout, log_header, column_header,
                   pulled, row, sink_open, sink_failed, prev>>

\* Faulty variant: the two header rows are handed to write_csv in each
\* other's place.
BuildRows_Swapped ==
    /\ pc = "build"
    /\ log_header' = IF ~args.no_csv_column_header
                     THEN Some(ColumnHeaderRow(header)) ELSE None
    /\ column_header' = IF ~args.no_csv_log_header
                        THEN Some(LogHeaderRow(header)) ELSE None
    /\ pc' = "write_csv"
    /\ UNCHANGED <<args, header, samples, stderr, stdout, pulled, row,
                   sink_open, sink_failed, prev>>

\* The generator expression is created (nothing is pulled yet) and the two
\* optional header rows are built.
BuildRows ==
    /\ pc = "build"
    /\ log_header' = IF ~args.no_csv_log_header
                     THEN Some(LogHeaderRow(header)) ELSE None
    /\ column_header' = IF ~args.no_csv_column_header
                        THEN Some(ColumnHeaderRow(header)) ELSE None
    /\ pc' = "write_csv"
    /\ UNCHANGED <<args, header, samples, stderr, stdout, pulled, row,
                   sink_open, sink_failed, prev>>

-----------------------------------------------------------------------------
(* write_csv(timestamped_data, log_header, column_header), file = sys.stdout *)

\* Faulty variant: write_csv first turns data into a list, which pulls every
\* sample before anything is written.
WriteLogHeader_Materialize ==
    /\ pc = "write_csv"
    /\ sink_open' = TRUE
    /\ pulled' = Len(samples)
    /\ stdout' = IF log_header.some THEN Append(stdout, log_header.val) ELSE stdout
    /\ pc' = "col"
    /\ UNCHANGED <<args, header, samples, stderr, log_header, column_header,
                   row, sink_failed, prev>>

\* csv_writer = csv.writer(file); if log_header is not None: writerow(log_header)
WriteLogHeader ==
    /\ pc = "write_csv"
    /\ sink_open' = TRUE
    /\ stdout' = IF log_header.some THEN Append(stdout, log_header.val) ELSE stdout
    /\ pc' = "col"
    /\ UNCHANGED <<args, header, samples, stderr, log_header, column_header,
                   pulled, row, sink_failed, prev>>

\* Faulty variant: the column header is written when log_header is not None.
WriteColumnHeader_TestsLogHeader ==
    /\ pc = "col"
    /\ stdout' = IF log_header.some THEN Append(stdout, column_header.val)
                 ELSE stdout
    /\ pc' = "rows"
    /\ UNCHANGED <<args, header, samples, stderr, log_header, column_header,
                   pulled, row, sink_open, sink_failed, prev>>

\* if column_header is not None: writerow(column_header)
WriteColumnHeader ==
    /\ pc = "col"
    /\ stdout' = IF column_header.some THEN Append(stdout, column_header.val)
                 ELSE stdout
    /\ pc' = "rows"
    /\ UNCHANGED <<args, header, samples, stderr, log_header, column_header,
                   pulled, row, sink_open, sink_failed, prev>>

\* writerows(data) asks the generator for its next row: enumerate() takes the
\* next sample and the generator yields its row.
PullSample ==
    /\ pc = "rows"
    /\ pulled < Len(samples)
    /\ row' = Some(TimestampedRow(header, pulled, samples[pulled + 1]))
    /\ pulled' = pulled + 1
    /\ pc' = "row"
    /\ UNCHANGED <<args, header, samples, stderr, stdout, log_header,
                   column_header, sink_open, sink_failed, prev>>

\* writerows(data) writes the row it was given.
WriteRow ==
    /\ pc = "row"
    /\ stdout' = Append(stdout, CsvDataRow(row.val))
    /\ row' = None
    /\ pc' = "rows"
    /\ UNCHANGED <<args, header, samples, stderr, log_header, column_header,
                   pulled, sink_open, sink_failed, prev>>

\* The sample sequence is exhausted: writerows, write_csv and main return.
Return ==
    /\ pc = "rows"
    /\ pulled = Len(samples)
    /\ pc' = "done"
    /\ UNCHANGED <<args, header, samples, stderr, stdout, log_header,
                   column_header, pulled, row, sink_open, sink_failed, prev>>

\* Faulty variant: the failed write is caught and the loop goes on.
WriteFails_Swallowed ==
    /\ \/ pc = "write_csv" /\ log_header.some
       \/ pc = "col" /\ column_header.some
       \/ pc = "row"
    /\ sink_open' = TRUE
    /\ sink_failed' = TRUE
    /\ pc' = "rows"
    /\ UNCHANGED <<args, header, samples, stderr, stdout, log_header,
                   column_header, pulled, row, prev>>

\* A write to the sink raises. Neither write_csv nor main catches it: the
\* exception leaves main.
WriteFails ==
    /\ \/ pc = "write_csv" /\ log_header.some
       \/ pc = "col" /\ column_header.some
       \/ pc = "row"
    /\ sink_open' = TRUE
    /\ sink_failed' = TRUE
    /\ pc' = "failed"
    /\ UNCHANGED <<args, header, samples, stderr, stdout, log_header,
                   column_header, pulled, row, prev>>

\* The program is run again on the same log file, with any arguments, after a
\* run that returned normally.
RunAgain ==
    /\ pc = "done"
    /\ prev' = [ran |-> TRUE, args |-> args, stdout |-> stdout, stderr |-> stderr]
    /\ args' \in Args
    /\ pc' = "start"
    /\ stderr' = <<>>
    /\ stdout' = <<>>
    /\ log_header' = None
    /\ column_header' = None
    /\ pulled' = 0
    /\ row' = None
    /\ sink_open' = FALSE
    /\ sink_failed' = FALSE
    /\ UNCHANGED <<header, samples>>

Next ==
    \/ PrintHeaderInfo
    \/ BuildRows
    \/ WriteLogHeader
    \/ WriteColumnHeader
    \/ PullSample
    \/ WriteRow
    \/ Return
    \/ WriteFails
    \/ RunAgain

Spec == Init /\ [][Next]_vars

-----------------------------------------------------------------------------
(* Vocabulary of the properties *)

\* Number of header rows the arguments a ask for.
NLog(a) == IF a.no_csv_log_header THEN 0 ELSE 1
NCol(a) == IF a.no_csv_column_header THEN 0 ELSE 1

\* The data rows in the sink: everything after the requested header rows.
DataRows ==
    IF Len(stdout) <= NLog(args) + NCol(args) THEN <<>>
    ELSE SubSeq(stdout, NLog(args) + NCol(args) + 1, Len(stdout))

\* s without its k-th element.
RemoveAt(s, k) == SubSeq(s, 1, k - 1) \o SubSeq(s, k + 1, Len(s))

Digits == {"0", "1", "2", "3", "4", "5", "6", "7", "8", "9"}

IsDigits(t) == Len(t) > 0 /\ \A k \in 1..Len(t) : SubSeq(t, k, k) \in Digits

DigitValue(c) == CHOOSE v \in 0..9 : ToString(v) = c

RECURSIVE DigitsValue(_)
DigitsValue(t) ==
    IF Len(t) = 0 THEN 0
    ELSE 10 * DigitsValue(SubSeq(t, 1, Len(t) - 1)) + DigitValue(SubSeq(t, Len(t), Len(t)))

\* The text t is a plain decimal number (digits, one point, digits) whose
\* value is exactly num / den.
PlainNumberIs(t, num, den) ==
    \E p \in 1..Len(t) :
        LET ip == SubSeq(t, 1, p - 1)
            fp == SubSeq(t, p + 1, Len(t))
        IN /\ SubSeq(t, p, p) = "."
           /\ IsDigits(ip)
           /\ IsDigits(fp)
           /\ (DigitsValue(ip) * Pow10(Len(fp)) + DigitsValue(fp)) * den
                 = num * Pow10(Len(fp))

\* The diagnostic text of a run that is not quiet.
Banner == "Header Information"
UnitPrefix == "voltage units: "

Range(q) == {q[k] : k \in DOMAIN q}

-----------------------------------------------------------------------------
(* C1 *)

\* C1: within one run, for every combination of the two header flags: when
\* both header rows are requested, the first row in the sink is the log
\* header row, the second the column header row, and no sample is turned into
\* a data row before both are there; the k-th data row in the sink carries
\* the time of index k-1 and the channel values of the k-th sample.
C1_RowOrder ==
    /\ (NLog(args) = 1 /\ NCol(args) = 1) =>
          /\ Len(stdout) >= 1 => stdout[1] = LogHeaderRow(header)
          /\ Len(stdout) >= 2 => stdout[2] = ColumnHeaderRow(header)
          /\ pulled > 0 => Len(stdout) >= 2
    /\ Len(DataRows) <= Len(samples)
    /\ \A k \in 1..Len(DataRows) :
          /\ Len(DataRows[k]) = Len(samples[k]) + 1
          /\ PlainNumberIs(DataRows[k][1], k - 1, header.sample_rate)
          /\ \A j \in 1..Len(samples[k]) :
                DataRows[k][j + 1] = ToString(samples[k][j])
    /\ pc = "done" => Len(DataRows) = Len(samples)

C1_Witness ==
    /\ pc = "done"
    /\ NLog(args) = 1 /\ NCol(args) = 1
    /\ Len(samples) = 2
    /\ samples[1] # samples[2]
    /\ Len(stdout) = 4

-----------------------------------------------------------------------------
(* C2 *)

\* C2: a run that returned wrote N + (1 if the log header is requested) +
\* (1 if the column header is requested) rows; of two such runs on the same
\* log that differ in include_log_header only (whatever quiet is), the one
\* without it wrote the other's rows minus the first, which is the key=value
\* row; of two that differ in include_column_header only, the one without it
\* wrote the other's rows minus the column title row.
C2_FlagsIndependent ==
    pc = "done" =>
      /\ Len(stdout) = Len(samples) + NLog(args) + NCol(args)
      /\ (/\ prev.ran
          /\ prev.args.no_csv_column_header = args.no_csv_column_header
          /\ prev.args.no_csv_log_header # args.no_csv_log_header) =>
            LET on == IF args.no_csv_log_header THEN prev.stdout ELSE stdout
                off == IF args.no_csv_log_header THEN stdout ELSE prev.stdout
            IN /\ Len(on) = Len(off) + 1
               /\ on[1] = LogHeaderRow(header)
               /\ off = RemoveAt(on, 1)
      /\ (/\ prev.ran
          /\ prev.args.no_csv_log_header = args.no_csv_log_header
          /\ prev.args.no_csv_column_header # args.no_csv_column_header) =>
            LET on == IF args.no_csv_column_header THEN prev.stdout ELSE stdout
                off == IF args.no_csv_column_header THEN stdout ELSE prev.stdout
            IN /\ Len(on) = Len(off) + 1
               /\ on[NLog(args) + 1] = ColumnHeaderRow(header)
               /\ off = RemoveAt(on, NLog(args) + 1)

C2_Witness ==
    /\ pc = "done"
    /\ prev.ran
    /\ prev.args.no_csv_column_header = FALSE
    /\ args.no_csv_column_header = FALSE
    /\ prev.args.no_csv_log_header = FALSE
    /\ args.no_csv_log_header = TRUE
    /\ Len(samples) = 2
    /\ Len(stdout) = 3

-----------------------------------------------------------------------------
(* C3 *)

\* C3: the row the generator yields for the i-th sample (i counted from 0) is
\* one longer than the sample's channel list, starts with the number
\* i / sample_rate exactly (so 0 for the first row, whatever the delay), and
\* continues with the sample's channel values in their order; when the run
\* returns, exactly N rows have been yielded for N samples.
C3_RowProducer ==
    /\ row.some =>
          /\ pulled \in 1..Len(samples)
          /\ Len(row.val) = Len(samples[pulled]) + 1
          /\ row.val[1].d > 0
          /\ row.val[1].n * header.sample_rate = (pulled - 1) * row.val[1].d
          /\ pulled = 1 => row.val[1].n = 0
          /\ \A j \in 1..Len(samples[pulled]) : row.val[j + 1] = samples[pulled][j]
    /\ pc = "row" => row.some
    /\ pc = "done" => pulled = Len(samples)

C3_Witness ==
    /\ pc = "row"
    /\ row.some
    /\ pulled = 2
    /\ header.delay # 0
    /\ header.sample_rate = 1000
    /\ Len(samples[2]) = 2

-----------------------------------------------------------------------------
(* C4 *)

\* C4: every data row in the sink has num_channels + 1 fields, and a run
\* whose sample sequence holds a sample with a channel count other than
\* num_channels does not return normally.
C4_MalformedSampleRejected ==
    /\ \A k \in 1..Len(DataRows) : Len(DataRows[k]) = header.num_channels + 1
    /\ pc = "done" =>
          \A k \in 1..Len(samples) : Len(samples[k]) = header.num_channels

-----------------------------------------------------------------------------
(* C5 *)

\* C5: when channel_map has at least num_channels entries, the column header
\* row has num_channels + 1 elements, the first is "Time", and element j+1
\* is "Channel " followed by entry j of channel_map (j from 0).
C5_ColumnHeader ==
    (column_header.some /\ Len(header.channel_map) >= header.num_channels) =>
      /\ Len(column_header.val) = header.num_channels + 1
      /\ column_header.val[1] = "Time"
      /\ \A j \in 0..(header.num_channels - 1) :
            column_header.val[j + 2] = "Channel " \o ToString(header.channel_map[j + 1])

C5_Witness ==
    /\ column_header.some
    /\ header.num_channels = 2
    /\ Len(header.channel_map) = 3
    /\ Len(stdout) >= 1
    /\ stdout[Len(stdout)] = column_header.val

-----------------------------------------------------------------------------
(* C6 *)

\* C6: in the summary of a run that is not quiet, the voltage unit line shows
\* "mV" for voltage_scale 1000, "V" for voltage_scale 1, and for any other
\* voltage_scale a plain decimal number equal to 1/voltage_scale; a second
\* run on the same header prints the same summary.
C6_VoltageUnit ==
    (~args.quiet /\ pc # "start") =>
      /\ Len(stderr) = 9
      /\ LET line == stderr[5]
             unit == SubSeq(line, Len(UnitPrefix) + 1, Len(line))
         IN /\ SubSeq(line, 1, Len(UnitPrefix)) = UnitPrefix
            /\ header.voltage_scale = 1000 => unit = "mV"
            /\ header.voltage_scale = 1 => unit = "V"
            /\ header.voltage_scale \notin {1000, 1} =>
                  PlainNumberIs(unit, 1, header.voltage_scale)
      /\ (prev.ran /\ ~prev.args.quiet) => stderr = prev.stderr

C6_Witness ==
    /\ ~args.quiet
    /\ pc = "build"
    /\ prev.ran
    /\ ~prev.args.quiet
    /\ header.voltage_scale = 5
    /\ stderr[5] = "voltage units: 0.2"

-----------------------------------------------------------------------------
(* C7 *)

\* C7: in every terminal state of a run, after a normal return and after a
\* failed write alike, the sink is no longer held open: it has been released.
C7_SinkReleasedOnExit == pc \in {"done", "failed"} => ~sink_open

-----------------------------------------------------------------------------
(* C8 *)

\* C8: once a write to the sink has raised, the run is over with the
\* exception (it never returns normally), and from then on no sample is
\* pulled and the sink keeps exactly the rows it had; the failing step itself
\* adds no row and pulls no sample.
C8_SinkFailureAborts ==
    [][ /\ sink_failed' => (stdout' = stdout /\ pulled' = pulled)
        /\ sink_failed => (sink_failed' /\ pc = "failed" /\ pc' = "failed") ]_vars

C8_Witness ==
    /\ sink_failed
    /\ pc = "failed"
    /\ Len(stdout) = 3
    /\ pulled = 2
    /\ Len(samples) = 2

-----------------------------------------------------------------------------
(* C9 *)

\* C9: no sample is pulled before the requested header rows are in the sink,
\* and the number of samples pulled is the number of data rows in the sink or
\* one more; the one more is the row in hand.
C9_LazyPull ==
    /\ pulled > 0 => Len(stdout) >= NLog(args) + NCol(args)
    /\ pulled >= Len(DataRows)
    /\ pulled <= Len(DataRows) + 1
    /\ pulled = Len(DataRows) + 1 => row.some
    /\ pulled <= Len(samples)

C9_Witness ==
    /\ pc = "row"
    /\ pulled = 2
    /\ Len(DataRows) = 1
    /\ NLog(args) + NCol(args) = 2

-----------------------------------------------------------------------------
(* C10 *)

\* C10: a quiet run prints nothing on the diagnostic stream; a run that is
\* not quiet has printed the banner and the eight summary lines there before
\* the sink gets its first row; no field of any row in the sink is one of
\* those lines; and two runs on the same log that differ in quiet only
\* write the same rows.
C10_QuietOnlyDiagnostics ==
    /\ args.quiet => stderr = <<>>
    /\ (~args.quiet /\ (pc # "start" \/ Len(stdout) > 0)) =>
          /\ Len(stderr) = 9
          /\ stderr[1] = Banner
          /\ SubSeq(stderr, 2, 9) = format_header_info(header)
    /\ \A k \in 1..Len(stdout) :
          Range(stdout[k]) \cap (Range(format_header_info(header)) \cup {Banner}) = {}
    /\ (/\ pc = "done"
        /\ prev.ran
        /\ prev.args.no_csv_log_header = args.no_csv_log_header
        /\ prev.args.no_csv_column_header = args.no_csv_column_header) =>
          stdout = prev.stdout

C10_Witness ==
    /\ pc = "done"
    /\ prev.ran
    /\ prev.args.quiet
    /\ ~args.quiet
    /\ prev.args.no_csv_log_header = args.no_csv_log_header
    /\ prev.args.no_csv_column_header = args.no_csv_column_header
    /\ Len(stdout) = 4
    /\ Len(stderr) = 9
    /\ prev.stderr = <<>>

====
